---- MODULE Spec2Model ----
(***************************************************************************)
(* A model of ufat_mkfs.c: the FAT12/16/32 formatter of uFAT.              *)
(*                                                                         *)
(* Machine integers.  ufat_block_t is a 64-bit unsigned integer and        *)
(* ufat_cluster_t, uint32_t and unsigned int are 32-bit unsigned integers. *)
(* A machine value is a sequence of four 16-bit limbs, least significant   *)
(* first, so that every C operation keeps its width: a 64-bit operation is *)
(* computed on the four limbs, a 32-bit one is the 64-bit one cut to its   *)
(* two low limbs (U32).  Small quantities that the code only uses as shift *)
(* counts or loop indices (log2_*, i, j, c ...) are plain naturals.        *)
(***************************************************************************)
EXTENDS Integers, Sequences, FiniteSets, TLC

\* ------------------------------------------------------------------------
\* Bounds of the model
\* ------------------------------------------------------------------------

\* The most device writes one run of ufat_mkfs is followed for.
MaxWrites == 4200

\* The devices formatted have blocks of 2^0 .. 2^MaxLog2BlockSize bytes.
MaxLog2BlockSize == 13

\* ------------------------------------------------------------------------
\* Program constants (src/ufat_mkfs.c:40-43)
\* ------------------------------------------------------------------------

BACKUP_SECTOR == 6
FSINFO_SECTOR == 1
MEDIA_DISK == 248
BUF_BLOCK_SIZE == 1024

\* ------------------------------------------------------------------------
\* Machine arithmetic on 16-bit limbs
\* ------------------------------------------------------------------------

LimbBase == 256 * 256

RECURSIVE Pow2(_)
Pow2(k) == IF k = 0 THEN 1 ELSE 2 * Pow2(k - 1)

\* The machine value of a natural below 2^31.
W(n) == << n % LimbBase, (n \div LimbBase) % LimbBase, 0, 0 >>

\* Conversion to a 32-bit type (uint32_t, ufat_cluster_t, unsigned int).
U32(x) == << x[1], x[2], 0, 0 >>

\* Conversion to uint16_t (the value parameter of w16) and to uint8_t.
U16(x) == << x[1], 0, 0, 0 >>

UINT32_MAX == << LimbBase - 1, LimbBase - 1, 0, 0 >>
UINT16_MAX == << LimbBase - 1, 0, 0, 0 >>

\* Does the value fit a natural of the model (below 2^31)?
Fits(x) == x[3] = 0 /\ x[4] = 0 /\ x[2] < LimbBase \div 2

\* The natural a small machine value stands for.
Val(x) == x[1] + LimbBase * x[2]

\* The limbs of a value, evaluated once (four for a machine value, six for
\* an exact natural).
Limbs(f, n) ==
    IF n = 4 THEN << f[1], f[2], f[3], f[4] >>
    ELSE << f[1], f[2], f[3], f[4], f[5], f[6] >>

RECURSIVE Carry(_, _, _)
Carry(a, b, k) ==
    IF k = 0 THEN 0 ELSE (a[k] + b[k] + Carry(a, b, k - 1)) \div LimbBase

\* a + b  (unsigned, wrapping at the width of a: 64 bits for a machine value)
Add(a, b) ==
    Limbs([k \in 1..Len(a) |-> (a[k] + b[k] + Carry(a, b, k - 1)) % LimbBase],
          Len(a))

RECURSIVE Borrow(_, _, _)
Borrow(a, b, k) ==
    IF k = 0 THEN 0
    ELSE IF a[k] - b[k] - Borrow(a, b, k - 1) < 0 THEN 1 ELSE 0

\* a - b  (unsigned, wrapping)
Sub(a, b) ==
    Limbs([k \in 1..Len(a) |->
              (a[k] - b[k] - Borrow(a, b, k - 1) + LimbBase) % LimbBase],
          Len(a))

\* Limb k of a, 0 outside the value.
LimbAt(a, k) == IF k >= 1 /\ k <= Len(a) THEN a[k] ELSE 0

\* a << n and a >> n  (unsigned; bits shifted out are lost)
Shl(a, n) ==
    LET q == n \div 16
        r == n % 16
    IN Limbs([k \in 1..Len(a) |->
                 ((LimbAt(a, k - q) * Pow2(r)) % LimbBase)
                 + (LimbAt(a, k - q - 1) \div Pow2(16 - r))],
             Len(a))

Shr(a, n) ==
    LET q == n \div 16
        r == n % 16
    IN Limbs([k \in 1..Len(a) |->
                 (LimbAt(a, k + q) \div Pow2(r))
                 + ((LimbAt(a, k + q + 1) % Pow2(r)) * Pow2(16 - r))],
             Len(a))

\* a < b  (unsigned)
RECURSIVE LtFrom(_, _, _)
LtFrom(a, b, k) ==
    IF k = 0 THEN FALSE
    ELSE IF a[k] # b[k] THEN a[k] < b[k]
    ELSE LtFrom(a, b, k - 1)

Lt(a, b) == LtFrom(a, b, Len(a))
Le(a, b) == ~Lt(b, a)
Gt(a, b) == Lt(b, a)
Ge(a, b) == ~Lt(a, b)

\* Byte k (0 = least significant) of a machine value.
ByteOf(x, k) ==
    IF k % 2 = 0 THEN x[(k \div 2) + 1] % 256 ELSE x[(k \div 2) + 1] \div 256

\* ------------------------------------------------------------------------
\* calculate_layout  (src/ufat_mkfs.c:64-183)
\* ------------------------------------------------------------------------

\* (bytes + (1 << log2_block_size) - 1) >> log2_block_size, in uint32_t.
bytes_to_blocks(l2bs, bytes) ==
    Shr(U32(Sub(U32(Add(bytes, Shl(W(1), l2bs))), W(1))), l2bs)

\* Line 84: the sector is at least 512 bytes and at least one block.
MinLog2Bps(l2bs) == IF l2bs < 9 THEN 9 - l2bs ELSE 0

\* Lines 89-91: grow the sector while the sector count overflows 32 bits.
RECURSIVE GrowLog2Bps(_, _, _)
GrowLog2Bps(n, l2bs, log2_bps) ==
    IF l2bs + log2_bps < 12 /\ Gt(Shr(n, log2_bps), UINT32_MAX)
    THEN GrowLog2Bps(n, l2bs, log2_bps + 1)
    ELSE log2_bps

\* Lines 94-95: chop the device if the sector count still overflows.
ChopBlocks(n, log2_bps) ==
    IF Gt(Shr(n, log2_bps), UINT32_MAX) THEN Shl(UINT32_MAX, log2_bps) ELSE n

\* Lines 110-122: the FAT type, from the logical sector count alone.
TypeOf(nsect) ==
    IF Lt(nsect, W(8400)) THEN "FAT12"
    ELSE IF Lt(nsect, W(1048576)) THEN "FAT16"
    ELSE "FAT32"

ClustersThreshold(type) ==
    IF type = "FAT12" THEN W(Pow2(12))
    ELSE IF type = "FAT16" THEN W(Pow2(16))
    ELSE W(2097152)

InitialLog2Spc(type) == IF type = "FAT32" THEN 3 ELSE 1

\* Lines 127-130: grow the cluster while there are too many clusters.
RECURSIVE GrowLog2Spc(_, _, _, _)
GrowLog2Spc(nsect, log2_sector_size, threshold, log2_spc) ==
    IF /\ log2_spc < 7
       /\ log2_sector_size + log2_spc < 15
       /\ Gt(Shr(nsect, log2_spc), threshold)
    THEN GrowLog2Spc(nsect, log2_sector_size, threshold, log2_spc + 1)
    ELSE log2_spc

\* Lines 143-145.
ReservedSectors(type) == IF type = "FAT32" THEN W(32) ELSE W(1)

\* A faulty variant of FatBytes: every type takes two bytes an entry.
FatBytesTwoAnEntry(type, est_clusters) == U32(Shl(est_clusters, 1))

\* Lines 152-157: the bytes of one FAT holding est_clusters entries.
FatBytes(type, est_clusters) ==
    IF type = "FAT32" THEN U32(Shl(est_clusters, 2))
    ELSE IF type = "FAT16" THEN U32(Shl(est_clusters, 1))
    ELSE Shr(U32(Add(U32(Add(est_clusters, Shl(est_clusters, 1))), W(1))), 1)

\* Lines 162-163.
MinRootBlocks(type, l2bs) ==
    IF type # "FAT32" THEN bytes_to_blocks(l2bs, W(16384)) ELSE W(0)

\* Lines 168-170: the final cluster count, converted to ufat_cluster_t.
FinalClusters(n, reserved_blocks, root_blocks, fat_blocks, log2_bpc) ==
    U32(Add(Shr(Sub(Sub(Sub(n, reserved_blocks), root_blocks),
                    Shl(fat_blocks, 1)),
                log2_bpc),
            W(2)))

\* (fl->clusters - 2) << fl->log2_bpc: both operands are 32 bits wide.
DataBlocks(clusters, log2_bpc) == U32(Shl(U32(Sub(clusters, W(2))), log2_bpc))

\* Lines 173-176: the root directory takes the blocks no cluster fills.
FinalRootBlocks(type, n, reserved, root, fat_blocks, clusters, log2_bpc) ==
    IF type # "FAT32"
    THEN Sub(Sub(Sub(n, reserved), Shl(fat_blocks, 1)),
             DataBlocks(clusters, log2_bpc))
    ELSE root

\* Lines 179-180.
LogicalBlocks(reserved_blocks, root_blocks, fat_blocks, clusters, log2_bpc) ==
    Add(Add(Add(DataBlocks(clusters, log2_bpc), Shl(fat_blocks, 1)),
            reserved_blocks),
        root_blocks)

\* The layout before calculate_layout has run.
NoLayout ==
    [log2_sector_size |-> 0, log2_bpc |-> 0, reserved_blocks |-> W(0),
     root_blocks |-> W(0), fat_blocks |-> W(0), logical_blocks |-> W(0),
     clusters |-> W(0), type |-> "none"]

NoLocals == [nblk |-> W(0), log2_bps |-> 0, log2_spc |-> 0, nsect |-> W(0),
             est_clusters |-> W(0), fat_bytes |-> W(0)]

\* calculate_layout(&fl, nblk, log2_block_size): its return value, the layout
\* it leaves in *fl and the final values of its local variables.
calculate_layout(nblk0, l2bs) ==
    IF l2bs > 12
    THEN [err |-> "-UFAT_ERR_BLOCK_SIZE", fl |-> NoLayout, loc |-> NoLocals]
    ELSE
    LET log2_bps == GrowLog2Bps(nblk0, l2bs, MinLog2Bps(l2bs))
        n == ChopBlocks(nblk0, log2_bps)
        log2_sector_size == l2bs + log2_bps
        nsect == U32(Shr(n, log2_bps))
        type == TypeOf(nsect)
        log2_spc == GrowLog2Spc(nsect, log2_sector_size,
                                ClustersThreshold(type), InitialLog2Spc(type))
        log2_bpc == log2_bps + log2_spc
        reserved_blocks == Shl(ReservedSectors(type), log2_bps)
        est_clusters == U32(Add(Shr(Sub(n, reserved_blocks), log2_bpc), W(2)))
        fat_bytes == FatBytes(type, est_clusters)
        fat_blocks == bytes_to_blocks(l2bs, fat_bytes)
        root0 == MinRootBlocks(type, l2bs)
        clusters == FinalClusters(n, reserved_blocks, root0, fat_blocks,
                                  log2_bpc)
        root_blocks == FinalRootBlocks(type, n, reserved_blocks, root0,
                                       fat_blocks, clusters, log2_bpc)
    IN [err |-> "0",
        fl |-> [log2_sector_size |-> log2_sector_size,
                log2_bpc |-> log2_bpc,
                reserved_blocks |-> reserved_blocks,
                root_blocks |-> root_blocks,
                fat_blocks |-> fat_blocks,
                logical_blocks |-> LogicalBlocks(reserved_blocks, root_blocks,
                                                 fat_blocks, clusters,
                                                 log2_bpc),
                clusters |-> clusters,
                type |-> type],
        loc |-> [nblk |-> n, log2_bps |-> log2_bps, log2_spc |-> log2_spc,
                 nsect |-> nsect, est_clusters |-> est_clusters,
                 fat_bytes |-> fat_bytes]]

\* ------------------------------------------------------------------------
\* State
\* ------------------------------------------------------------------------

VARIABLES
    log2_block_size,  \* dev->log2_block_size
    nblk,             \* the block count ufat_mkfs is called with
    pc,               \* <<function, position>> the run of ufat_mkfs is at
    fl,               \* struct fs_layout fl of ufat_mkfs
    loc,              \* final values of calculate_layout's local variables
    i,                \* the loop counter i of the function being run
    block,            \* init_fat*: block
    minor_byte,       \* init_fat12: minor_byte
    cluster_pair,     \* init_fat12: cluster_pair
    c,                \* init_fat16, init_fat32: c
    dev,              \* the blocks the device has taken, in the order written
    nwrites,          \* the calls of dev->write made so far
    last,             \* the latest call of dev->write and its outcome
    failed,           \* some call of dev->write returned a negative status
    ret               \* the value ufat_mkfs returned

vars == << log2_block_size, nblk, pc, fl, loc, i, block, minor_byte,
           cluster_pair, c, dev, nwrites, last, failed, ret >>

block_size == Pow2(log2_block_size)

\* ------------------------------------------------------------------------
\* The buffers handed to dev->write.  A buffer is the function from the
\* offsets 0 .. block_size-1 (the bytes dev->write transfers) to bytes.
\* ------------------------------------------------------------------------

\* w16 and w32 store a value least significant byte first.
w16(v) == << ByteOf(v, 0), ByteOf(v, 1) >>
w32(v) == << ByteOf(v, 0), ByteOf(v, 1), ByteOf(v, 2), ByteOf(v, 3) >>

\* uint8_t buf[BUF_BLOCK_SIZE] after memset(buf, 0, block_size); the bytes
\* past block_size are indeterminate (-1) and never transferred.
ZeroedBuf ==
    [j \in 0..(BUF_BLOCK_SIZE - 1) |-> IF j < block_size THEN 0 ELSE -1]

\* buf after the bytes bs have been stored at buf + off.
Put(buf, off, bs) ==
    [j \in DOMAIN buf |->
        IF off <= j /\ j < off + Len(bs) THEN bs[j - off + 1] ELSE buf[j]]

\* The block_size bytes dev->write(dev, blk, 1, buf) transfers; what lies
\* past the end of buf is indeterminate (-1).
Transferred(buf) ==
    [j \in 0..(block_size - 1) |-> IF j < BUF_BLOCK_SIZE THEN buf[j] ELSE -1]

\* erase_blocks, lines 190-192.
erase_buf == Transferred(ZeroedBuf)

\* init_fat12, lines 326-348: the block whose inner loop starts with the
\* counters minor_byte = m0 and cluster_pair = p0; byte j is produced with
\* minor_byte = (m0 + j) % 3 and cluster_pair = p0 + (m0 + j) \div 3.
fat12_pair_data(pair) ==
    IF Ge(U32(Shl(W(pair), 1)), fl.clusters) THEN 16744439   \* 0xff7ff7
    ELSE IF Ge(U32(Add(U32(Shl(W(pair), 1)), W(1))), fl.clusters)
         THEN 16740352                                       \* 0xff7000
    ELSE 0

fat12_header == << MEDIA_DISK, 143, 255 >>

fat12_buf(m0, p0, first) ==
    [j \in 0..(block_size - 1) |->
        IF j >= BUF_BLOCK_SIZE THEN -1
        ELSE IF first /\ j < Len(fat12_header) THEN fat12_header[j + 1]
        ELSE (fat12_pair_data(p0 + ((m0 + j) \div 3))
                \div Pow2(8 * ((m0 + j) % 3))) % 256]

\* init_fat16, lines 374-386: the block whose inner loop starts with c = c0.
fat16_entry(cc) == IF Ge(W(cc), fl.clusters) THEN W(65527) ELSE W(0)

fat16_header == w16(W(65280 + MEDIA_DISK)) \o w16(W(65528))

fat16_buf(c0, first) ==
    [j \in 0..(block_size - 1) |->
        IF j >= BUF_BLOCK_SIZE THEN -1
        ELSE IF first /\ j < Len(fat16_header) THEN fat16_header[j + 1]
        ELSE w16(fat16_entry(c0 + (j \div 2)))[(j % 2) + 1]]

\* init_fat32, lines 412-425.
SENTINEL32 == << 65527, 65535, 0, 0 >>       \* 0xfffffff7
EOC32 == << 65528, 65535, 0, 0 >>            \* 0xfffffff8
MEDIA32 == << 65280 + MEDIA_DISK, 65535, 0, 0 >>   \* 0xffffff00 | MEDIA_DISK

fat32_entry(cc) == IF Ge(W(cc), fl.clusters) THEN SENTINEL32 ELSE W(0)

fat32_header == w32(MEDIA32) \o w32(EOC32) \o w32(EOC32)

fat32_buf(c0, first) ==
    [j \in 0..(block_size - 1) |->
        IF j >= BUF_BLOCK_SIZE THEN -1
        ELSE IF first /\ j < Len(fat32_header) THEN fat32_header[j + 1]
        ELSE w32(fat32_entry(c0 + (j \div 4)))[(j % 4) + 1]]

\* write_fsinfo, lines 289-294.
fsinfo_buf ==
    LET b0 == ZeroedBuf
        b1 == Put(b0, 0, w32(<< 21074, 16737, 0, 0 >>))     \* 0x41615252
        b2 == Put(b1, 484, w32(<< 29298, 24897, 0, 0 >>))   \* 0x61417272
        b3 == Put(b2, 488, w32(U32(Sub(fl.clusters, W(3)))))
        b4 == Put(b3, 492, w32(W(2)))
        b5 == Put(b4, 508, w32(<< 0, 43605, 0, 0 >>))       \* 0xaa550000
    IN Transferred(b5)

\* write_bpb, lines 208-266.  ub is the value the build gives the shift
\* fl->root_blocks << (dev->log2_block_size - 5) when the count is negative
\* (block sizes below 32 bytes), which C leaves undefined.
boot_header == << 235, 254, 144, 117, 102, 97, 116, 32, 32, 32, 32 >>

type_name ==
    IF fl.type = "FAT12" THEN << 70, 65, 84, 49, 50, 32, 32, 32 >>
    ELSE IF fl.type = "FAT16" THEN << 70, 65, 84, 49, 54, 32, 32, 32 >>
    ELSE IF fl.type = "FAT32" THEN << 70, 65, 84, 51, 50, 32, 32, 32 >>
    ELSE << 70, 65, 84, 32, 32, 32, 32, 32 >>

Blanks11 == [k \in 1..11 |-> 32]

\* const unsigned int log2_bps of write_bpb and write_fsinfo.
writer_log2_bps == fl.log2_sector_size - log2_block_size

UndefinedShift == { W(0), W(1), UINT16_MAX }

root_entries(ub) ==
    IF log2_block_size >= 5
    THEN Shl(fl.root_blocks, log2_block_size - 5)
    ELSE ub

bpb_buf(ub) ==
    LET log2_bps == writer_log2_bps
        b0 == ZeroedBuf
        b1 == Put(b0, 0, boot_header)
        b2 == Put(b1, 510, << 85, 170 >>)
        b3 == Put(b2, 11, w16(W(Pow2(fl.log2_sector_size))))
        b4 == Put(b3, 13, << Pow2(fl.log2_bpc - log2_bps) % 256 >>)
        b5 == Put(b4, 14, w16(Shl(fl.reserved_blocks, log2_bps)))
        b6 == Put(b5, 16, << 2 >>)
        b7 == Put(b6, 17, w16(root_entries(ub)))
        b8 == IF fl.type # "FAT32" /\ Le(fl.logical_blocks, UINT16_MAX)
              THEN Put(b7, 19, w16(Shl(fl.logical_blocks, log2_bps)))
              ELSE Put(b7, 32, w32(Shl(fl.logical_blocks, log2_bps)))
        b9 == Put(b8, 21, << MEDIA_DISK >>)
        b10 == IF fl.type # "FAT32"
               THEN Put(Put(Put(Put(b9, 22, w16(Shl(fl.fat_blocks, log2_bps))),
                                38, << 41 >>),
                            43, Blanks11),
                        54, type_name)
               ELSE Put(Put(Put(Put(Put(Put(Put(b9,
                        36, w32(Shl(fl.fat_blocks, log2_bps))),
                        44, w32(W(2))),
                        48, w16(W(1))),
                        50, w16(W(BACKUP_SECTOR))),
                        66, << 41 >>),
                        71, Blanks11),
                        82, type_name)
    IN Transferred(b10)

\* ------------------------------------------------------------------------
\* The device.  dev is the sequence of the successful writes in the order
\* made, run-length encoded: an extent stands for count consecutive blocks
\* from block start, written one after the other by the same loop, and
\* keeps what the buffers were made from: the loop counters st the first
\* block's buffer was filled from, and whether that block had block == 0
\* (first).
\* ------------------------------------------------------------------------

\* The loop counters after n more blocks have been filled.
Advance(kind, st, n) ==
    IF kind = "fat12"
    THEN << (st[1] + n * block_size) % 3,
            st[2] + ((st[1] + n * block_size) \div 3) >>
    ELSE IF kind = "fat16" THEN << st[1] + n * ((block_size + 1) \div 2) >>
    ELSE IF kind = "fat32" THEN << st[1] + n * ((block_size + 3) \div 4) >>
    ELSE st

\* The buffer a write of the given kind transferred.
BufOf(kind, st, first) ==
    IF kind = "zero" THEN erase_buf
    ELSE IF kind = "fat12" THEN fat12_buf(st[1], st[2], first)
    ELSE IF kind = "fat16" THEN fat16_buf(st[1], first)
    ELSE IF kind = "fat32" THEN fat32_buf(st[1], first)
    ELSE IF kind = "fsinfo" THEN fsinfo_buf
    ELSE bpb_buf(st[1])

Continues(e, w) ==
    /\ e.origin = w.origin
    /\ e.kind = w.kind
    /\ ~w.first
    /\ w.blk = Add(e.start, W(e.count))
    /\ w.st = Advance(e.kind, e.st, e.count)

\* The device after the write w has succeeded.
Written(d, w) ==
    IF Len(d) > 0 /\ Continues(d[Len(d)], w)
    THEN [d EXCEPT ![Len(d)].count = @ + 1]
    ELSE Append(d, [origin |-> w.origin, kind |-> w.kind, start |-> w.blk,
                    count |-> 1, st |-> w.st, first |-> w.first])

Covers(e, blk) == Ge(blk, e.start) /\ Lt(Sub(blk, e.start), W(e.count))

\* Has block blk been written?
IsWritten(blk) == \E k \in 1..Len(dev) : Covers(dev[k], blk)

\* The extent that wrote block blk last.
LastExtent(blk) ==
    dev[CHOOSE k \in 1..Len(dev) :
            /\ Covers(dev[k], blk)
            /\ \A m \in (k + 1)..Len(dev) : ~Covers(dev[m], blk)]

\* The block an extent wrote at blk.
ExtentBlock(e, blk) ==
    LET off == Val(Sub(blk, e.start))
    IN BufOf(e.kind, Advance(e.kind, e.st, off), e.first /\ off = 0)

\* The content of block blk of the device; what a block held before the
\* run is not known (-1).
DevBlock(blk) ==
    IF IsWritten(blk) THEN ExtentBlock(LastExtent(blk), blk)
    ELSE [j \in 0..(block_size - 1) |-> -1]

\* The blocks the device has taken from the function origin.
RECURSIVE CountFrom(_, _, _)
CountFrom(d, origin, k) ==
    IF k = 0 THEN 0
    ELSE (IF d[k].origin = origin THEN d[k].count ELSE 0)
         + CountFrom(d, origin, k - 1)

Count(origin) == CountFrom(dev, origin, Len(dev))

\* ------------------------------------------------------------------------
\* ufat_mkfs  (src/ufat_mkfs.c:452-497) and the functions it calls
\* ------------------------------------------------------------------------

Log2BlockSizes == 0..MaxLog2BlockSize

\* The block counts ufat_mkfs is called with.
BlockCounts ==
    { W(n) : n \in { 10, 34, 200, 8000, 8400, 70000, 1048576, 2097152 } }

NoWrite == [origin |-> "none", blk |-> W(0), ok |-> TRUE]

Init ==
    /\ log2_block_size \in Log2BlockSizes
    /\ nblk \in BlockCounts
    /\ pc = << "ufat_mkfs", "calculate_layout" >>
    /\ fl = NoLayout
    /\ loc = NoLocals
    /\ i = 0
    /\ block = 0
    /\ minor_byte = 0
    /\ cluster_pair = 0
    /\ c = 0
    /\ dev = << >>
    /\ nwrites = 0
    /\ last = NoWrite
    /\ failed = FALSE
    /\ ret = "none"

inputs == << log2_block_size, nblk >>
layout == << fl, loc >>
counters == << block, minor_byte, cluster_pair, c >>

\* ufat_mkfs returns err.
Return(err) ==
    /\ pc' = << "ufat_mkfs", "returned" >>
    /\ ret' = err

\* A function that runs with a block larger than buf (a build with NDEBUG)
\* has overrun buf, which is undefined: the program may go on, and may crash
\* at any point, the return of the function (its frame is overwritten) and
\* the return of ufat_mkfs included.
Overrun == BUF_BLOCK_SIZE < block_size /\ pc[2] = "loop"

CrashOnReturn ==
    /\ Overrun
    /\ pc' = << pc[1], "crashed" >>
    /\ UNCHANGED ret

\* return -UFAT_ERR_IO after a failed write, handed on by ufat_mkfs.
ReturnError == Return("-UFAT_ERR_IO") \/ CrashOnReturn

\* dev->write(dev, blk, 1, buf) with the outcome ok; the buffer is given by
\* what it was made from (kind, st, first).
DevWrite(origin, kind, blk, st, first, ok) ==
    /\ nwrites < MaxWrites
    /\ nwrites' = nwrites + 1
    /\ last' = [origin |-> origin, blk |-> blk, ok |-> ok]
    /\ failed' = (failed \/ ~ok)
    /\ dev' = IF ok
              THEN Written(dev, [origin |-> origin, kind |-> kind, blk |-> blk,
                                 st |-> st, first |-> first])
              ELSE dev

\* Lines 457-459: err = calculate_layout(&fl, nblk, dev->log2_block_size).
CalculateLayout ==
    /\ pc = << "ufat_mkfs", "calculate_layout" >>
    /\ LET r == calculate_layout(nblk, log2_block_size)
       IN IF r.err # "0"
          THEN /\ Return(r.err)
               /\ UNCHANGED layout
          ELSE /\ fl' = r.fl
               /\ loc' = r.loc
               /\ pc' = << "erase_reserved_blocks", "assert" >>
               /\ UNCHANGED ret
    /\ UNCHANGED << inputs, i, counters, dev, nwrites, last, failed >>

\* assert(BUF_BLOCK_SIZE >= block_size) on entry to erase_blocks, init_fat12,
\* init_fat16, init_fat32, write_fsinfo and write_bpb, and the initialisation
\* of the function's counters.  A failed assertion aborts the program; a
\* build with NDEBUG goes on: memset(buf, 0, block_size) and every write
\* then reach past the end of buf, which is undefined (see Crash).
AssertBufBlockSize ==
    /\ pc[2] = "assert"
    /\ \/ /\ BUF_BLOCK_SIZE >= block_size
          /\ pc' = << pc[1], "loop" >>
       \/ /\ BUF_BLOCK_SIZE < block_size
          /\ pc' = << pc[1], "aborted" >>
       \/ /\ BUF_BLOCK_SIZE < block_size
          /\ pc' = << pc[1], "loop" >>
    /\ i' = 0
    /\ block' = 0
    /\ minor_byte' = 0
    /\ cluster_pair' = 0
    /\ c' = 0
    /\ UNCHANGED << inputs, layout, dev, nwrites, last, failed, ret >>

\* Lines 465-477 and 482-485: the FAT initialiser and the root initialiser
\* of the layout's type.
FatInitialiser ==
    IF fl.type = "FAT12" THEN "init_fat12"
    ELSE IF fl.type = "FAT16" THEN "init_fat16"
    ELSE "init_fat32"

RootInitialiser ==
    IF fl.type = "FAT32" THEN "init_root_cluster" ELSE "init_root_blocks"

\* A faulty variant of NextCall: the root area is initialised before the
\* FAT.
NextCallRootFirst(fn) ==
    IF fn = "erase_reserved_blocks" THEN RootInitialiser
    ELSE IF fn \in { "init_root_cluster", "init_root_blocks" }
         THEN FatInitialiser
    ELSE IF fn \in { "init_fat12", "init_fat16", "init_fat32" }
         THEN (IF fl.type = "FAT32" THEN "write_fsinfo" ELSE "write_bpb")
    ELSE "write_bpb"

\* The function ufat_mkfs calls after fn has returned 0.
NextCall(fn) ==
    IF fn = "erase_reserved_blocks" THEN FatInitialiser
    ELSE IF fn \in { "init_fat12", "init_fat16", "init_fat32" }
         THEN RootInitialiser
    ELSE IF fn \in { "init_root_cluster", "init_root_blocks" }
         THEN (IF fl.type = "FAT32" THEN "write_fsinfo" ELSE "write_bpb")
    ELSE "write_bpb"

\* fn has returned 0 to ufat_mkfs.
Returned0(fn) ==
    \/ IF fn = "write_bpb"
       THEN Return("0")
       ELSE /\ pc' = << NextCall(fn), "assert" >>
            /\ UNCHANGED ret
    \/ CrashOnReturn

\* The arguments start and count of erase_blocks (lines 203, 436-439,
\* 445-449).
erase_start(fn) ==
    IF fn = "erase_reserved_blocks" THEN W(0)
    ELSE IF fn = "init_root_blocks"
         THEN Add(Shl(fl.fat_blocks, 1), fl.reserved_blocks)
    ELSE Add(Add(Shl(fl.fat_blocks, 1), fl.reserved_blocks), fl.root_blocks)

erase_count(fn) ==
    IF fn = "erase_reserved_blocks" THEN fl.reserved_blocks
    ELSE IF fn = "init_root_blocks" THEN fl.root_blocks
    ELSE W(Pow2(fl.log2_bpc))

\* erase_blocks, lines 193-197: one turn of the loop.
EraseBlocks ==
    /\ pc[1] \in { "erase_reserved_blocks", "init_root_blocks",
                   "init_root_cluster" }
    /\ pc[2] = "loop"
    /\ \/ /\ Lt(W(i), erase_count(pc[1]))
          /\ \E ok \in BOOLEAN :
                /\ DevWrite(pc[1], "zero", Add(erase_start(pc[1]), W(i)),
                            << >>, FALSE, ok)
                /\ IF ok
                   THEN /\ i' = i + 1
                        /\ UNCHANGED << pc, ret >>
                   ELSE /\ ReturnError
                        /\ UNCHANGED i
       \/ /\ ~Lt(W(i), erase_count(pc[1]))
          /\ Returned0(pc[1])
          /\ UNCHANGED << i, dev, nwrites, last, failed >>
    /\ UNCHANGED << inputs, layout, counters >>

\* init_fat12, lines 316-354: one turn of the outer loop.
InitFat12 ==
    /\ pc = << "init_fat12", "loop" >>
    /\ \/ /\ Lt(W(i), Shl(fl.fat_blocks, 1))
          /\ LET again == W(block) = fl.fat_blocks
                 b == IF again THEN 0 ELSE block
                 st == IF again THEN << 0, 0 >>
                       ELSE << minor_byte, cluster_pair >>
                 after == Advance("fat12", st, 1)
             IN \E ok \in BOOLEAN :
                  /\ DevWrite("init_fat12", "fat12",
                              Add(fl.reserved_blocks, W(i)), st, b = 0, ok)
                  /\ minor_byte' = after[1]
                  /\ cluster_pair' = after[2]
                  /\ IF ok
                     THEN /\ i' = i + 1
                          /\ block' = b + 1
                          /\ UNCHANGED << pc, ret >>
                     ELSE /\ ReturnError
                          /\ block' = b
                          /\ UNCHANGED i
          /\ UNCHANGED c
       \/ /\ ~Lt(W(i), Shl(fl.fat_blocks, 1))
          /\ Returned0("init_fat12")
          /\ UNCHANGED << i, counters, dev, nwrites, last, failed >>
    /\ UNCHANGED << inputs, layout >>

\* init_fat16 (lines 365-392) and init_fat32 (lines 403-431): one turn of
\* the outer loop.
InitFatWide(fn, kind) ==
    /\ pc = << fn, "loop" >>
    /\ \/ /\ Lt(W(i), Shl(fl.fat_blocks, 1))
          /\ LET again == W(block) = fl.fat_blocks
                 b == IF again THEN 0 ELSE block
                 st == IF again THEN << 0 >> ELSE << c >>
                 after == Advance(kind, st, 1)
             IN \E ok \in BOOLEAN :
                  /\ DevWrite(fn, kind, Add(fl.reserved_blocks, W(i)),
                              st, b = 0, ok)
                  /\ c' = after[1]
                  /\ IF ok
                     THEN /\ i' = i + 1
                          /\ block' = b + 1
                          /\ UNCHANGED << pc, ret >>
                     ELSE /\ ReturnError
                          /\ block' = b
                          /\ UNCHANGED i
          /\ UNCHANGED << minor_byte, cluster_pair >>
       \/ /\ ~Lt(W(i), Shl(fl.fat_blocks, 1))
          /\ Returned0(fn)
          /\ UNCHANGED << i, counters, dev, nwrites, last, failed >>
    /\ UNCHANGED << inputs, layout >>

InitFat16 == InitFatWide("init_fat16", "fat16")

InitFat32 == InitFatWide("init_fat32", "fat32")

\* write_fsinfo, lines 297-304: the write of the FSInfo sector (i = 0) and
\* of its backup (i = 1).
fsinfo_block == Shr(W(FSINFO_SECTOR), writer_log2_bps)
fsinfo_backup_block == Shr(W(FSINFO_SECTOR + BACKUP_SECTOR), writer_log2_bps)

WriteFsinfo ==
    /\ pc = << "write_fsinfo", "loop" >>
    /\ \E ok \in BOOLEAN :
         /\ DevWrite("write_fsinfo", "fsinfo",
                     IF i = 0 THEN fsinfo_block ELSE fsinfo_backup_block,
                     << >>, FALSE, ok)
         /\ IF ~ok THEN ReturnError
            ELSE IF i = 0 THEN UNCHANGED << pc, ret >>
            ELSE Returned0("write_fsinfo")
         /\ i' = IF ok THEN i + 1 ELSE i
    /\ UNCHANGED << inputs, layout, counters >>

\* write_bpb, lines 268-277: the write of the boot sector (i = 0) and, for
\* FAT32, of its backup (i = 1), both from the same buffer.
backup_block == Shr(W(BACKUP_SECTOR), writer_log2_bps)

WriteBpb ==
    /\ pc = << "write_bpb", "loop" >>
    /\ \E ok \in BOOLEAN :
       \E ub \in IF i = 1 THEN { dev[Len(dev)].st[1] }
                 ELSE IF log2_block_size >= 5 THEN { W(0) }
                 ELSE UndefinedShift :
         /\ DevWrite("write_bpb", "bpb",
                     IF i = 0 THEN W(0) ELSE backup_block,
                     << ub >>, FALSE, ok)
         /\ IF ~ok THEN ReturnError
            ELSE IF i = 0 /\ fl.type = "FAT32" THEN UNCHANGED << pc, ret >>
            ELSE Returned0("write_bpb")
         /\ i' = IF ok THEN i + 1 ELSE i
    /\ UNCHANGED << inputs, layout, counters >>

\* The crash of a run that has overrun buf, between two steps of a loop.
Crash ==
    /\ Overrun
    /\ pc' = << pc[1], "crashed" >>
    /\ UNCHANGED << inputs, layout, i, counters, dev, nwrites, last, failed,
                    ret >>

Next ==
    \/ CalculateLayout
    \/ AssertBufBlockSize
    \/ EraseBlocks
    \/ InitFat12
    \/ InitFat16
    \/ InitFat32
    \/ WriteFsinfo
    \/ WriteBpb
    \/ Crash

Spec == Init /\ [][Next]_vars

\* ------------------------------------------------------------------------
\* Reading the device back
\* ------------------------------------------------------------------------

Done == pc = << "ufat_mkfs", "returned" >>
Success == Done /\ ret = "0"
LayoutDone == fl.type # "none"

\* Byte off of the logical sector that starts at block blk.
SectorByte(blk, off) ==
    DevBlock(Add(blk, W(off \div block_size)))[off % block_size]

R16(blk, off) == SectorByte(blk, off) + 256 * SectorByte(blk, off + 1)
R32(blk, off) == << R16(blk, off), R16(blk, off + 2), 0, 0 >>

\* The first block of the logical sector numbered sect.
SectorStart(sect) == Shl(W(sect), fl.log2_sector_size - log2_block_size)

\* FAT copy k (0 or 1) read as one array of bytes across its blocks.
FatCopyStart(k) ==
    Add(fl.reserved_blocks, IF k = 0 THEN W(0) ELSE fl.fat_blocks)

FatByte(k, o) == SectorByte(FatCopyStart(k), o)

\* Entry idx of FAT copy k, at the entry width of the layout's type.
FatEntry(k, idx) ==
    IF fl.type = "FAT12"
    THEN LET o == (3 * idx) \div 2
             v == FatByte(k, o) + 256 * FatByte(k, o + 1)
         IN W(IF idx % 2 = 0 THEN v % 4096 ELSE v \div 16)
    ELSE IF fl.type = "FAT16"
    THEN W(FatByte(k, 2 * idx) + 256 * FatByte(k, 2 * idx + 1))
    ELSE << FatByte(k, 4 * idx) + 256 * FatByte(k, 4 * idx + 1),
            FatByte(k, 4 * idx + 2) + 256 * FatByte(k, 4 * idx + 3), 0, 0 >>

\* The whole entries one FAT copy holds.
FatCapacity ==
    LET bytes == Val(fl.fat_blocks) * block_size
    IN IF fl.type = "FAT12" THEN (2 * bytes) \div 3
       ELSE IF fl.type = "FAT16" THEN bytes \div 2
       ELSE bytes \div 4

\* The FAT initialiser has written both copies.
FatDone ==
    /\ LayoutDone
    /\ W(Count(FatInitialiser)) = Shl(fl.fat_blocks, 1)

\* The FAT initialiser has just returned 0 to ufat_mkfs, or ufat_mkfs has
\* returned 0.
FatInitialised ==
    /\ LayoutDone
    /\ (pc = << RootInitialiser, "assert" >> \/ Success)
    /\ FatDone

\* A machine value as an exact natural of six limbs.
Wide(x) == x \o << 0, 0 >>

\* ------------------------------------------------------------------------
\* Properties of calculate_layout
\* ------------------------------------------------------------------------

\* The sum of the region sizes as an exact natural:
\* reserved_blocks + 2*fat_blocks + root_blocks + (clusters-2) * 2^log2_bpc.
RegionSum ==
    Add(Add(Add(Wide(fl.reserved_blocks), Shl(Wide(fl.fat_blocks), 1)),
            Wide(fl.root_blocks)),
        Shl(Sub(Wide(fl.clusters), Wide(W(2))), fl.log2_bpc))

\* C3: every layout calculate_layout produces has logical_blocks <= the
\* requested block count, and its region sizes (reserved_blocks +
\* 2*fat_blocks + root_blocks + (clusters-2) * 2^log2_bpc) sum exactly to
\* logical_blocks.
C3_LayoutFitsAndSums ==
    LayoutDone =>
        /\ Le(fl.logical_blocks, nblk)
        /\ Ge(fl.clusters, W(2))
        /\ RegionSum = Wide(fl.logical_blocks)

\* The bytes fl.clusters entries take at the entry width of the type, and
\* the bytes of one FAT copy, as exact naturals.
EntryBytes ==
    LET n == Wide(fl.clusters)
    IN IF fl.type = "FAT32" THEN Shl(n, 2)
       ELSE IF fl.type = "FAT16" THEN Shl(n, 1)
       ELSE Shr(Add(Add(n, Shl(n, 1)), Wide(W(1))), 1)

FatCopyBytes == Shl(Wide(fl.fat_blocks), log2_block_size)

\* C4: in every layout calculate_layout produces, the final cluster count
\* fl.clusters is <= the estimate est_clusters the FAT was sized from, so one
\* FAT copy of fat_blocks blocks has room for fl.clusters entries.
C4_FinalClustersWithinEstimate ==
    LayoutDone =>
        /\ Le(fl.clusters, loc.est_clusters)
        /\ Le(EntryBytes, FatCopyBytes)

\* The scenario of C7: 512-byte blocks, 8000 blocks.
Scenario8000 ==
    /\ log2_block_size = 9
    /\ nblk = W(8000)
    /\ LayoutDone

\* The layout's sizes in logical sectors of 2^log2_sector_size bytes.
SectorsPerCluster == Pow2(fl.log2_bpc - (fl.log2_sector_size - log2_block_size))
InSectors(blocks) == Shr(blocks, fl.log2_sector_size - log2_block_size)

\* C7, as stated: for 512-byte blocks and 8000 blocks calculate_layout yields
\* FAT12, 1 reserved sector, a cluster of 1 sector, a root directory of 32
\* sectors, and FAT copies sized for at least 8000 12-bit entries.
C7_Scenario8000AsStated ==
    Scenario8000 =>
        /\ fl.type = "FAT12"
        /\ InSectors(fl.reserved_blocks) = W(1)
        /\ SectorsPerCluster = 1
        /\ InSectors(fl.root_blocks) = W(32)
        /\ Ge(FatCopyBytes, Wide(W((8000 * 3 + 1) \div 2)))

\* C7, amended: for 512-byte blocks and 8000 blocks calculate_layout yields
\* FAT12, 1 reserved sector, a cluster of 2 sectors, a root directory of 33
\* sectors (the 16 KiB minimum of 32 sectors and the 1 block no cluster
\* fills), and FAT copies of 12 sectors each, sized for the estimated 4001
\* 12-bit entries (the final cluster count is 3973) rounded up to whole
\* sectors.
C7_Scenario8000 ==
    Scenario8000 =>
        /\ fl.type = "FAT12"
        /\ InSectors(fl.reserved_blocks) = W(1)
        /\ SectorsPerCluster = 2
        /\ InSectors(fl.root_blocks) = W(33)
        /\ loc.est_clusters = W(4001)
        /\ fl.clusters = W(3973)
        /\ fl.fat_blocks = W(12)
        /\ fl.fat_blocks = bytes_to_blocks(9, W((4001 * 3 + 1) \div 2))
        /\ fl.logical_blocks = W(8000)

C7_Witness == Scenario8000 /\ pc = << "erase_reserved_blocks", "assert" >>

\* ------------------------------------------------------------------------
\* Properties of the sequence of device writes
\* ------------------------------------------------------------------------

\* The run is over: ufat_mkfs has returned, or the program has aborted on
\* the assertion or crashed.
Ended == Done \/ pc[2] \in { "aborted", "crashed" }

\* C1: as soon as one device write has failed no further device write is
\* issued and ufat_mkfs returns -UFAT_ERR_IO (the failed write is the last
\* write of the run); a run on a layout calculate_layout produced in which
\* no write fails ends with ufat_mkfs returning 0 and its last write the one
\* issued by write_bpb; and 0 is returned only so.
C1_FirstFailureEndsRun ==
    /\ failed => /\ Done
                 /\ ret = "-UFAT_ERR_IO"
                 /\ ~last.ok
    /\ (Ended /\ ~failed /\ LayoutDone) =>
          /\ ret = "0"
          /\ last.origin = "write_bpb"
          /\ last.ok
    /\ ret = "-UFAT_ERR_IO" => failed
    /\ Success => ~failed /\ last.origin = "write_bpb"

\* The place of a function in the order of line 461-495.
Rank(origin) ==
    IF origin = "erase_reserved_blocks" THEN 1
    ELSE IF origin \in { "init_fat12", "init_fat16", "init_fat32" } THEN 2
    ELSE IF origin \in { "init_root_blocks", "init_root_cluster" } THEN 3
    ELSE IF origin = "write_fsinfo" THEN 4
    ELSE IF origin = "write_bpb" THEN 5
    ELSE 0

\* The function of the given rank for the layout's type, and the number of
\* blocks it writes in all ("skipped" where the type has no such step).
PhaseOf(r) ==
    IF r = 1 THEN "erase_reserved_blocks"
    ELSE IF r = 2 THEN FatInitialiser
    ELSE IF r = 3 THEN RootInitialiser
    ELSE IF r = 4 THEN (IF fl.type = "FAT32" THEN "write_fsinfo" ELSE "skipped")
    ELSE "write_bpb"

PhaseBlocks(r) ==
    IF r = 1 THEN fl.reserved_blocks
    ELSE IF r = 2 THEN Add(fl.fat_blocks, fl.fat_blocks)
    ELSE IF r = 3
         THEN (IF fl.type = "FAT32" THEN W(Pow2(fl.log2_bpc))
               ELSE fl.root_blocks)
    ELSE IF r = 4 THEN (IF fl.type = "FAT32" THEN W(2) ELSE W(0))
    ELSE (IF fl.type = "FAT32" THEN W(2) ELSE W(1))

PhaseComplete(r) ==
    PhaseOf(r) = "skipped" \/ W(Count(PhaseOf(r))) = PhaseBlocks(r)

\* The functions that have issued a write so far.
Issuers ==
    { dev[k].origin : k \in 1..Len(dev) } \cup ({ last.origin } \ { "none" })

\* C2: the device writes are issued in the order erase of the reserved
\* region, both FAT copies (ascending blocks from reserved_blocks), the root
\* area of the layout's type, for FAT32 the two FSInfo writes, and then the
\* boot sector written by write_bpb to block 0 and, for FAT32, its backup;
\* a function issues a write only when every earlier function has written
\* all its blocks with success, so the boot sector is written to block 0
\* only after every earlier write has succeeded.
C2_WritesInFixedOrder ==
    /\ \A k \in 1..(Len(dev) - 1) :
          /\ Rank(dev[k].origin) <= Rank(dev[k + 1].origin)
          /\ (dev[k].origin = dev[k + 1].origin /\ Rank(dev[k].origin) <= 3)
                => dev[k + 1].start = Add(dev[k].start, W(dev[k].count))
    /\ (Len(dev) > 0 /\ last.origin # "none")
          => Rank(dev[Len(dev)].origin) <= Rank(last.origin)
    /\ \A o \in Issuers :
          /\ LayoutDone
          /\ Rank(o) > 0
          /\ o = PhaseOf(Rank(o))
          /\ \A r \in 1..(Rank(o) - 1) : PhaseComplete(r)
    /\ \A k \in 1..Len(dev) :
          /\ (dev[k].origin = "erase_reserved_blocks"
                /\ (k = 1 \/ dev[k - 1].origin # dev[k].origin))
                => dev[k].start = W(0)
          /\ (Rank(dev[k].origin) = 2
                /\ (k = 1 \/ dev[k - 1].origin # dev[k].origin))
                => dev[k].start = fl.reserved_blocks
          /\ (dev[k].origin = "write_bpb"
                /\ (k = 1 \/ dev[k - 1].origin # "write_bpb"))
                => dev[k].start = W(0)
    /\ (last.origin = "write_bpb" /\ Count("write_bpb") = 0)
          => last.blk = W(0)
    /\ (last.origin = "write_bpb" /\ last.blk # W(0))
          => /\ fl.type = "FAT32"
             /\ Count("write_bpb") >= 1
             /\ last.blk = backup_block
    /\ Success => \A r \in 1..5 : PhaseComplete(r)

\* A FAT32 run has made all its writes: erase, FAT, root cluster, FSInfo and
\* its backup, boot sector and its backup.
C2_Witness ==
    /\ Success
    /\ fl.type = "FAT32"
    /\ Count("write_fsinfo") = 2
    /\ Count("write_bpb") = 2
    /\ Count("init_fat32") > 0

\* ------------------------------------------------------------------------
\* Properties of the FAT copies
\* ------------------------------------------------------------------------

\* Entry 0 as the claim states it: the media descriptor in the low byte and
\* every higher bit of the entry set.
MediaEntry ==
    IF fl.type = "FAT12" THEN W(3840 + MEDIA_DISK)
    ELSE IF fl.type = "FAT16" THEN W(65280 + MEDIA_DISK)
    ELSE << 65280 + MEDIA_DISK, 65535, 0, 0 >>

\* The highest end-of-chain values of the type: 0xfff, 0xffff, and for FAT32
\* 0x0fffffff (28 bits) or 0xffffffff.
HighestEndOfChain ==
    IF fl.type = "FAT12" THEN { W(4095) }
    ELSE IF fl.type = "FAT16" THEN { W(65535) }
    ELSE { << 65535, 4095, 0, 0 >>, << 65535, 65535, 0, 0 >> }

\* C6: in every FAT copy written by init_fat12, init_fat16 or init_fat32,
\* entry 0 holds the media descriptor (0xF8) in its low byte with all higher
\* bits of the entry set, and entry 1 holds the type's maximum end-of-chain
\* value.
C6_ReservedEntries ==
    FatInitialised =>
        \A k \in { 0, 1 } :
            /\ FatEntry(k, 0) = MediaEntry
            /\ FatEntry(k, 1) \in HighestEndOfChain

\* The out-of-range sentinel 0xff7, 0xfff7, 0xfffffff7.
Sentinel ==
    IF fl.type = "FAT12" THEN W(4087)
    ELSE IF fl.type = "FAT16" THEN W(65527)
    ELSE << 65527, 65535, 0, 0 >>

FirstFree == IF fl.type = "FAT32" THEN 3 ELSE 2

\* C8: once the FAT initialiser has returned 0, every entry of each
\* copy whose index is >= fl.clusters holds the sentinel, every entry whose
\* index is >= 2 (3 for FAT32) and < fl.clusters holds 0, and the second
\* copy is byte for byte the first.
C8_FatEntries ==
    FatInitialised =>
        /\ \A k \in { 0, 1 } : \A idx \in 0..(FatCapacity - 1) :
              /\ Ge(W(idx), fl.clusters) => FatEntry(k, idx) = Sentinel
              /\ (idx >= FirstFree /\ Lt(W(idx), fl.clusters))
                    => FatEntry(k, idx) = W(0)
        /\ \A o \in 0..(Val(fl.fat_blocks) * block_size - 1) :
              FatByte(0, o) = FatByte(1, o)

\* ------------------------------------------------------------------------
\* Properties of the boot sector and of the FSInfo sector
\* ------------------------------------------------------------------------

\* C5: after a successful ufat_mkfs the boot sector in block 0 holds
\* bytes-per-sector = 2^log2_sector_size at 0x00b, sectors-per-cluster = the
\* cluster size in logical sectors at 0x00d, the reserved region in logical
\* sectors (1 for FAT12/16, 32 for FAT32) at 0x00e and fat_blocks in logical
\* sectors at 0x016 (FAT12/16) or 0x024 (FAT32).
C5_BootSectorRoundTrip ==
    Success =>
        /\ R16(W(0), 11) = Pow2(fl.log2_sector_size)
        /\ SectorByte(W(0), 13) = SectorsPerCluster
        /\ W(R16(W(0), 14)) = InSectors(fl.reserved_blocks)
        /\ R16(W(0), 14) = (IF fl.type = "FAT32" THEN 32 ELSE 1)
        /\ IF fl.type = "FAT32"
           THEN R32(W(0), 36) = InSectors(fl.fat_blocks)
           ELSE W(R16(W(0), 22)) = InSectors(fl.fat_blocks)

\* Are the logical sectors numbered a and b byte for byte the same on the
\* device?
SameSector(a, b) ==
    \A o \in 0..(Pow2(fl.log2_sector_size) - 1) :
        SectorByte(SectorStart(a), o) = SectorByte(SectorStart(b), o)

\* C9: after a successful ufat_mkfs of a FAT32 layout the device holds the
\* FSInfo structure (lead signature 0x41615252) where logical sector 1
\* starts, a copy of it where logical sector 7 starts, and a copy of the boot
\* sector where logical sector 6 starts: the sector numbers 1 and 6 the boot
\* sector records at 0x030 and 0x032.
C9_FsinfoAndBackupSectors ==
    (Success /\ fl.type = "FAT32") =>
        /\ R16(W(0), 48) = FSINFO_SECTOR
        /\ R16(W(0), 50) = BACKUP_SECTOR
        /\ R32(SectorStart(FSINFO_SECTOR), 0) = << 21074, 16737, 0, 0 >>
        /\ R32(SectorStart(FSINFO_SECTOR + BACKUP_SECTOR), 0)
              = << 21074, 16737, 0, 0 >>
        /\ SameSector(FSINFO_SECTOR, FSINFO_SECTOR + BACKUP_SECTOR)
        /\ SameSector(0, BACKUP_SECTOR)

\* C10: for every block size calculate_layout accepts (log2_block_size <=
\* 12) the assertion BUF_BLOCK_SIZE >= block_size holds wherever it is made,
\* so no run aborts, overruns the buffer or crashes; -UFAT_ERR_BLOCK_SIZE
\* is returned only for a block size above 4096 bytes and before any device
\* write.
C10_AssertionHolds ==
    /\ log2_block_size <= 12 =>
          /\ pc[2] \notin { "aborted", "crashed" }
          /\ ~Overrun
          /\ ret # "-UFAT_ERR_BLOCK_SIZE"
    /\ ret = "-UFAT_ERR_BLOCK_SIZE" => (log2_block_size > 12 /\ nwrites = 0)

====
